---- MODULE Spec2Model ----
(***************************************************************************)
(* Model of the expiring key-value store engine of src/src/kv_store.rs:    *)
(* the in-memory HashMap<String, Value>, the JSON snapshot file            *)
(* storage/kv_store.json, the wall clock, and the public operations new,   *)
(* get, set_with_ttl, delete, list, get_all and get_ttl.                   *)
(***************************************************************************)
EXTENDS Integers, Sequences, FiniteSets, TLC

(***************************************************************************)
(* Bounds of the model.                                                    *)
(***************************************************************************)
\* Number of bits of the model's unsigned integers (u64 scaled down).
Width == 3
\* The clock stops advancing at this reading.
MaxNow == 2
\* Largest "ordinary" TTL offered to set_with_ttl (besides the maximal one).
MaxTtl == 1
\* At most this many snapshot writes fail in one run.
MaxFail == 1

RECURSIVE Pow2(_)
Pow2(n) == IF n = 0 THEN 1 ELSE 2 * Pow2(n - 1)

\* u64::MAX of the scaled integer type.
U64Max == Pow2(Width) - 1

Keys == {"k1", "k2"}
Payloads == {"a", "b"}

\* Option<T>: None is the empty sequence, Some(x) the one-element sequence.
None == <<>>
Some(x) == <<x>>

\* The ttl_seconds arguments offered to set_with_ttl.
Ttls == {None} \cup {Some(t) : t \in 0..MaxTtl} \cup {Some(U64Max)}

VARIABLES
    now,     \* SystemTime::now() in whole seconds since the epoch
    up,      \* TRUE while a process holds a KvStore
    store,   \* KvStore.store: the in-memory map (a function on its keys)
    file,    \* storage/kv_store.json: [kind, obj]
    ret,     \* what the last operation was and what it returned
    saved,   \* the map handed to the last save() whose write succeeded
    prev,    \* the in-memory map of the previous process when it ended
    synced,  \* TRUE iff the most recent save() wrote the file
    fails    \* number of failed snapshot writes so far

vars == <<now, up, store, file, ret, saved, prev, synced, fails>>

EmptyMap == <<>>

(***************************************************************************)
(* Pure helpers of the engine.                                             *)
(***************************************************************************)

\* struct Value { data, expires_at }
Value(d, e) == [data |-> d, expires_at |-> e]

\* HashMap::insert
insert(m, k, v) == [x \in (DOMAIN m) \cup {k} |-> IF x = k THEN v ELSE m[x]]

\* Mutant of remove: the entry is looked up but left in the map.
remove_nothing(m, k) == m

\* HashMap::remove
remove(m, k) == [x \in (DOMAIN m) \ {k} |-> m[x]]

\* Mutant of is_expired: strict comparison, the entry survives its boundary second.
is_expired_strict(value, t) ==
    IF value.expires_at # None THEN value.expires_at[1] < t ELSE FALSE

\* Mutant of is_expired: the entry is expired during its boundary second only.
is_expired_boundary_only(value, t) ==
    IF value.expires_at # None THEN value.expires_at[1] = t ELSE FALSE

\* KvStore::is_expired, t being the clock reading it takes.
is_expired(value, t) ==
    IF value.expires_at # None THEN value.expires_at[1] <= t ELSE FALSE

\* u64::saturating_sub
saturating_sub(a, b) == IF a >= b THEN a - b ELSE 0

\* u64 addition in a build without overflow checks.
wrapping_add(a, b) == (a + b) % (U64Max + 1)

\* Mutant of to_string: the expiry of every entry is written as null.
to_string_no_expiry(m) ==
    { [key |-> k, data |-> <<"str", m[k].data>>, expires_at |-> <<"null">>]
        : k \in DOMAIN m }

\* serde_json::to_string(&self.store): one member per key, the payload as a
\* JSON string, expires_at as a JSON number or null.
to_string(m) ==
    { [key |-> k,
       data |-> <<"str", m[k].data>>,
       expires_at |-> IF m[k].expires_at = None
                      THEN <<"null">>
                      ELSE <<"num", m[k].expires_at[1]>>]
        : k \in DOMAIN m }

\* serde_json::from_str::<HashMap<String, Value>> on a parsable snapshot.
from_str(obj) ==
    [k \in {e.key : e \in obj} |->
        LET e == CHOOSE x \in obj : x.key = k
        IN  Value(e.data[2],
                  IF e.expires_at[1] = "null" THEN None ELSE Some(e.expires_at[2]))]

\* The three states of the snapshot file.
Missing == [kind |-> "missing", obj |-> {}]
Corrupt == [kind |-> "corrupt", obj |-> {}]
Json(obj) == [kind |-> "json", obj |-> obj]

\* How fs::write can end: written, failed before touching the file, or
\* failed after truncating it.
WriteOutcomes == {"ok", "open_failed", "write_failed"}

\* Mutant of save: the new members are added to the old file contents.
save_merging(m, wr) ==
    CASE wr = "ok" -> Json(file.obj \cup to_string(m))
      [] wr = "open_failed" -> file
      [] OTHER -> Corrupt

\* The file after save() of map m when fs::write ends as wr.
save(m, wr) ==
    CASE wr = "ok" -> Json(to_string(m))
      [] wr = "open_failed" -> file
      [] OTHER -> Corrupt

\* The load in KvStore::new: a parsable file gives its map, anything else
\* the empty map.
load(f) == IF f.kind = "json" THEN from_str(f.obj) ELSE EmptyMap

\* KvStore::get at clock reading t.
get(m, key, t) ==
    IF key \in DOMAIN m
    THEN IF is_expired(m[key], t) THEN None ELSE Some(m[key].data)
    ELSE None

\* KvStore::list: every entry is tested at its own clock reading rd[k].
list(m, rd) == { <<k, m[k].data>> : k \in {x \in DOMAIN m : ~is_expired(m[x], rd[x])} }

\* KvStore::get_all, likewise.
get_all(m, rd) == { <<k, m[k]>> : k \in {x \in DOMAIN m : ~is_expired(m[x], rd[x])} }

\* KvStore::get_ttl: t1 is the clock reading of is_expired, t2 the one the
\* remainder is computed from.
get_ttl(m, key, t1, t2) ==
    IF key \in DOMAIN m
    THEN IF is_expired(m[key], t1)
         THEN None
         ELSE IF m[key].expires_at # None
              THEN Some(saturating_sub(m[key].expires_at[1], t2))
              ELSE None
    ELSE None

\* Mutant of cleanup_expired: nothing is removed.
cleanup_nothing(m, rd) == m

\* The map cleanup_expired leaves: every entry expired at its reading is removed.
cleanup_expired(m, rd) ==
    [k \in {x \in DOMAIN m : ~is_expired(m[x], rd[x])} |-> m[k]]

\* The clock readings of a scan over map m during which the clock advances
\* by d: the keys in early are read before the advance.
Readings(m, early, d) == [k \in DOMAIN m |-> IF k \in early THEN now ELSE now + d]

\* A scan all of whose clock readings are t.
AllAt(m, t) == [k \in DOMAIN m |-> t]

\* The clock may advance by this much while one operation runs.
Skews == IF now < MaxNow THEN {0, 1} ELSE {0}

\* The record of an operation. For new, val is what it met: the kind of the
\* snapshot file, or the call that failed.
Ret(op, key, val, ttl, status, out, at, reads) ==
    [op |-> op, key |-> key, val |-> val, ttl |-> ttl, status |-> status,
     out |-> out, at |-> at, reads |-> reads]

\* A write may fail only while the budget of failures lasts.
Outcomes == IF fails < MaxFail THEN WriteOutcomes ELSE {"ok"}

Failed(wr) == IF wr = "ok" THEN 0 ELSE 1

(***************************************************************************)
(* The state before the first process starts: no snapshot file.            *)
(***************************************************************************)
Init ==
    /\ now = 0
    /\ up = FALSE
    /\ store = EmptyMap
    /\ file = Missing
    /\ ret = Ret("none", "-", "-", None, "-", None, <<>>, EmptyMap)
    /\ saved = EmptyMap
    /\ prev = EmptyMap
    /\ synced = TRUE
    /\ fails = 0

\* The wall clock advances by one second.
Tick ==
    /\ now < MaxNow
    /\ now' = now + 1
    /\ UNCHANGED <<up, store, file, ret, saved, prev, synced, fails>>

\* The bookkeeping of one save(m) whose write ends as wr.
Persist(m, wr) ==
    /\ file' = save(m, wr)
    /\ saved' = IF wr = "ok" THEN m ELSE saved
    /\ synced' = (wr = "ok")
    /\ fails' = fails + Failed(wr)

\* Mutant of Start: the cleanup saves only if it removed something.
Start_save_if_removed(wr, early, d) ==
    /\ ~up
    /\ LET m0 == load(file)
           rd == Readings(m0, early, d)
           m1 == cleanup_expired(m0, rd)
       IN  /\ store' = m1
           /\ IF m1 # m0 THEN Persist(m1, wr)
                          ELSE UNCHANGED <<file, saved, synced, fails>>
           /\ ret' = Ret("new", "-", file.kind, None, "Ok", None, <<now, now + d>>, rd)
    /\ up' = TRUE
    /\ now' = now + d
    /\ prev' = EmptyMap

\* KvStore::new succeeds: load the snapshot, drop what has expired, save.
\* The error of that save is only printed.
Start(wr, early, d) ==
    /\ ~up
    /\ LET m0 == load(file)
           rd == Readings(m0, early, d)
           m1 == cleanup_expired(m0, rd)
       IN  /\ store' = m1
           /\ Persist(m1, wr)
           /\ ret' = Ret("new", "-", file.kind, None, "Ok", None, <<now, now + d>>, rd)
    /\ up' = TRUE
    /\ now' = now + d
    /\ prev' = EmptyMap

\* KvStore::new fails: create_dir_all or read_to_string returns an error,
\* which new propagates; no store is built and nothing is written.
StartFail(io) ==
    /\ ~up
    /\ io = "read_failed" => file.kind # "missing"
    /\ ret' = Ret("new", "-", io, None, "Err", None, <<>>, EmptyMap)
    /\ UNCHANGED <<now, up, store, file, saved, prev, synced, fails>>

\* The process ends (Command::Exit, or an error leaving main).
Exit ==
    /\ up
    /\ up' = FALSE
    /\ prev' = store
    /\ store' = EmptyMap
    /\ ret' = Ret("exit", "-", "-", None, "-", None, <<>>, EmptyMap)
    /\ UNCHANGED <<now, file, saved, synced, fails>>

\* Mutant of Get: the read prunes the expired entries and saves.
Get_pruning(key) ==
    /\ up
    /\ ret' = Ret("get", key, "-", None, "Ok", get(store, key, now), <<now>>, EmptyMap)
    /\ store' = cleanup_expired(store, AllAt(store, now))
    /\ Persist(store', "ok")
    /\ UNCHANGED <<now, up, prev>>

\* KvStore::get(key)
Get(key) ==
    /\ up
    /\ ret' = Ret("get", key, "-", None, "Ok", get(store, key, now), <<now>>, EmptyMap)
    /\ UNCHANGED <<now, up, store, file, saved, prev, synced, fails>>

\* The expires_at computed by set_with_ttl at clock reading t (no overflow
\* checks: the sum wraps).
expires_at(ttl, t) == IF ttl = None THEN None ELSE Some(wrapping_add(t, ttl[1]))

\* Whether now + ttl overflows u64.
Overflows(ttl, t) == ttl # None /\ t + ttl[1] > U64Max

\* Mutant of Set: a failed save rolls the insert back.
Set_rollback(key, value, ttl, wr) ==
    /\ up
    /\ LET m == insert(store, key, Value(value, expires_at(ttl, now)))
       IN  /\ store' = IF wr = "ok" THEN m ELSE store
           /\ Persist(m, wr)
    /\ ret' = Ret("set", key, value, ttl, IF wr = "ok" THEN "Ok" ELSE "Err",
                  None, <<now>>, EmptyMap)
    /\ UNCHANGED <<now, up, prev>>

\* KvStore::set_with_ttl(key, value, ttl) (and set, which passes None):
\* insert, then save; the error of the save is returned, the insert stays.
\* In a build without overflow checks an overflowing sum wraps.
Set(key, value, ttl, wr) ==
    /\ up
    /\ LET m == insert(store, key, Value(value, expires_at(ttl, now)))
       IN  /\ store' = m
           /\ Persist(m, wr)
    /\ ret' = Ret("set", key, value, ttl, IF wr = "ok" THEN "Ok" ELSE "Err",
                  None, <<now>>, EmptyMap)
    /\ UNCHANGED <<now, up, prev>>

\* set_with_ttl in a build with overflow checks: now + ttl overflows, the
\* addition panics before the insert and the process ends.
SetPanic(key, value, ttl) ==
    /\ up
    /\ Overflows(ttl, now)
    /\ up' = FALSE
    /\ prev' = store
    /\ store' = EmptyMap
    /\ ret' = Ret("set", key, value, ttl, "Panic", None, <<now>>, EmptyMap)
    /\ UNCHANGED <<now, file, saved, synced, fails>>

\* KvStore::delete(key): remove whatever is stored, then save.
Delete(key, wr) ==
    /\ up
    /\ LET m == remove(store, key)
       IN  /\ store' = m
           /\ Persist(m, wr)
    /\ ret' = Ret("delete", key, "-", None, IF wr = "ok" THEN "Ok" ELSE "Err",
                  IF wr # "ok" THEN None
                  ELSE IF key \in DOMAIN store THEN Some(store[key].data) ELSE None,
                  <<>>, EmptyMap)
    /\ UNCHANGED <<now, up, prev>>

\* KvStore::list()
List(early, d) ==
    /\ up
    /\ LET rd == Readings(store, early, d)
       IN  ret' = Ret("list", "-", "-", None, "Ok", list(store, rd), <<>>, rd)
    /\ now' = now + d
    /\ UNCHANGED <<up, store, file, saved, prev, synced, fails>>

\* KvStore::get_all()
GetAll(early, d) ==
    /\ up
    /\ LET rd == Readings(store, early, d)
       IN  ret' = Ret("get_all", "-", "-", None, "Ok", get_all(store, rd), <<>>, rd)
    /\ now' = now + d
    /\ UNCHANGED <<up, store, file, saved, prev, synced, fails>>

\* KvStore::get_ttl(key): the clock may advance by d between its two readings.
GetTtl(key, d) ==
    /\ up
    /\ ret' = Ret("get_ttl", key, "-", None, "Ok",
                  get_ttl(store, key, now, now + d), <<now, now + d>>, EmptyMap)
    /\ now' = now + d
    /\ UNCHANGED <<up, store, file, saved, prev, synced, fails>>

\* The clock readings a scan of map m can take: none advances, or the clock
\* advances once after the keys of early have been read.
Scans(m) ==
    {<<DOMAIN m, 0>>} \cup
    (IF now < MaxNow THEN {<<e, 1>> : e \in SUBSET (DOMAIN m)} ELSE {})

\* Every operation of the engine, every snapshot write succeeding.
Next ==
    \/ Tick
    \/ \E sc \in Scans(load(file)) : Start("ok", sc[1], sc[2])
    \/ \E io \in {"dir_failed", "read_failed"} : StartFail(io)
    \/ Exit
    \/ \E key \in Keys : Get(key)
    \/ \E key \in Keys, value \in Payloads, ttl \in Ttls : Set(key, value, ttl, "ok")
    \/ \E key \in Keys, value \in Payloads, ttl \in Ttls : SetPanic(key, value, ttl)
    \/ \E key \in Keys : Delete(key, "ok")
    \/ \E sc \in Scans(store) : List(sc[1], sc[2])
    \/ \E sc \in Scans(store) : GetAll(sc[1], sc[2])
    \/ \E key \in Keys, d \in Skews : GetTtl(key, d)

Spec == Init /\ [][Next]_vars

\* The ttl_seconds arguments offered where writes may fail (none overflows).
TtlsIO == Ttls \ {Some(U64Max)}

\* The engine with snapshot writes that may fail: new, set_with_ttl and
\* delete. The reads are left to Spec: they change neither the map nor the
\* file, and the formulas below evaluate get and list on the state.
NextIO ==
    \/ Tick
    \/ \E wr \in Outcomes, sc \in Scans(load(file)) : Start(wr, sc[1], sc[2])
    \/ \E io \in {"dir_failed", "read_failed"} : StartFail(io)
    \/ Exit
    \/ \E key \in Keys, value \in Payloads, ttl \in TtlsIO, wr \in Outcomes :
          Set(key, value, ttl, wr)
    \/ \E key \in Keys, wr \in Outcomes : Delete(key, wr)

SpecIO == Init /\ [][NextIO]_vars

(***************************************************************************)
(* The second engine, store.rs. Its payloads are JSON values, so payload   *)
(* texts are modelled as sequences of characters over a small alphabet     *)
(* (a letter, a digit, a blank, the double quote), on which JSON parsing   *)
(* and rendering are computed. The variables are used for this engine as   *)
(* for the first: store is KvStore.data, file the file at file_path.       *)
(***************************************************************************)
Quote == "\""

Backslash == "\\"

Blanks == {" "}

Digits == {"0", "1", "2", "3", "4", "5", "6", "7", "8", "9"}

\* The payload texts passed to set: plain text, a number, a number after a
\* blank, a quoted string.
Texts == { <<"a">>, <<"1">>, <<" ", "1">>, <<Quote, "a", Quote>> }

RECURSIVE TrimLeft(_)
TrimLeft(s) == IF s # <<>> /\ Head(s) \in Blanks THEN TrimLeft(Tail(s)) ELSE s

RECURSIVE TrimRight(_)
TrimRight(s) ==
    IF s # <<>> /\ s[Len(s)] \in Blanks THEN TrimRight(SubSeq(s, 1, Len(s) - 1)) ELSE s

\* JSON allows blanks around a value.
Trim(s) == TrimRight(TrimLeft(s))

\* The text is a JSON number (an unsigned integer without leading zero).
IsNumber(s) ==
    /\ s # <<>>
    /\ \A i \in 1..Len(s) : s[i] \in Digits
    /\ Len(s) > 1 => s[1] # "0"

\* The text is a JSON string literal without escapes.
IsString(s) ==
    /\ Len(s) >= 2
    /\ s[1] = Quote
    /\ s[Len(s)] = Quote
    /\ \A i \in 2..(Len(s) - 1) : s[i] \notin {Quote, Backslash}

\* The characters of a JSON string, escaped for rendering.
RECURSIVE Escape(_)
Escape(s) ==
    IF s = <<>> THEN <<>>
    ELSE (IF Head(s) \in {Quote, Backslash} THEN <<Backslash, Head(s)>> ELSE <<Head(s)>>)
         \o Escape(Tail(s))

\* serde_json::from_str(&value).unwrap_or(JsonValue::String(value)): the
\* value a valid JSON text denotes, otherwise the text itself as a string.
JsonValue(value) ==
    LET t == Trim(value)
    IN  IF IsNumber(t) THEN <<"num", t>>
        ELSE IF IsString(t) THEN <<"str", SubSeq(t, 2, Len(t) - 1)>>
        ELSE <<"str", value>>

\* JsonValue::to_string: a number as its digits, a string quoted and escaped.
json_to_string(j) ==
    IF j[1] = "num" THEN j[2] ELSE <<Quote>> \o Escape(j[2]) \o <<Quote>>

\* serde_json::to_string(&self.data) in store.rs: one member per key, data
\* as the JSON value itself.
data_to_string(m) ==
    { [key |-> k,
       data |-> m[k].data,
       expires_at |-> IF m[k].expires_at = None
                      THEN <<"null">>
                      ELSE <<"num", m[k].expires_at[1]>>]
        : k \in DOMAIN m }

\* The file after save_to_file() of map m when fs::write ends as wr.
save_to_file(m, wr) ==
    CASE wr = "ok" -> Json(data_to_string(m))
      [] wr = "open_failed" -> file
      [] OTHER -> Corrupt

\* The map load_from_file would put in self.data for file f: the members of
\* a parsable file, otherwise the map is left as it is (empty at startup).
\* No constructor and no operation calls it.
load_from_file(f) ==
    IF f.kind = "json"
    THEN [k \in {e.key : e \in f.obj} |->
            LET e == CHOOSE x \in f.obj : x.key = k
            IN  Value(e.data,
                      IF e.expires_at[1] = "null" THEN None ELSE Some(e.expires_at[2]))]
    ELSE EmptyMap

\* The map remove_expired retains at clock reading t.
remove_expired(m, t) ==
    [k \in {x \in DOMAIN m : m[x].expires_at = None \/ m[x].expires_at[1] > t} |-> m[k]]

\* The result of store.rs get on map m at clock reading t.
store_get(m, key, t) ==
    LET m1 == remove_expired(m, t)
    IN  IF key \in DOMAIN m1 THEN Some(json_to_string(m1[key].data)) ELSE None

\* store.rs get_all, len and is_empty: the map as it is, no expiry test.
store_get_all(m) == { <<k, m[k]>> : k \in DOMAIN m }

store_len(m) == Cardinality(DOMAIN m)

store_is_empty(m) == DOMAIN m = {}

\* A panic ends the process with map m in memory and file f on disk
\* (save_to_file unwraps the result of fs::write).
StorePanic(op, key, value, ttl, m, f) ==
    /\ up' = FALSE
    /\ prev' = m
    /\ store' = EmptyMap
    /\ file' = f
    /\ ret' = Ret(op, key, value, ttl, "Panic", None, <<now>>, EmptyMap)

\* KvStore::new and KvStore::with_path: an empty map; the file is not read.
StoreNew ==
    /\ ~up
    /\ up' = TRUE
    /\ store' = EmptyMap
    /\ prev' = EmptyMap
    /\ ret' = Ret("new", "-", file.kind, None, "Ok", None, <<now>>, EmptyMap)
    /\ UNCHANGED <<now, file, saved, synced, fails>>

\* store.rs set(key, value, ttl): parse, insert, save.
StoreSet(key, value, ttl, wr) ==
    /\ up
    /\ LET m == insert(store, key, Value(JsonValue(value), expires_at(ttl, now)))
       IN  IF wr = "ok"
           THEN /\ store' = m
                /\ file' = save_to_file(m, wr)
                /\ ret' = Ret("set", key, value, ttl, "Ok", None, <<now>>, EmptyMap)
                /\ UNCHANGED <<up, prev>>
           ELSE StorePanic("set", key, value, ttl, m, save_to_file(m, wr))
    /\ fails' = fails + Failed(wr)
    /\ UNCHANGED <<now, saved, synced>>

\* set in a build with overflow checks: as_secs() + seconds overflows and
\* panics before the insert.
StoreSetPanic(key, value, ttl) ==
    /\ up
    /\ Overflows(ttl, now)
    /\ StorePanic("set", key, value, ttl, store, file)
    /\ UNCHANGED <<now, saved, synced, fails>>

\* store.rs get(key): remove_expired (which saves), then the lookup.
StoreGet(key, wr) ==
    /\ up
    /\ LET m == remove_expired(store, now)
       IN  IF wr = "ok"
           THEN /\ store' = m
                /\ file' = save_to_file(m, wr)
                /\ ret' = Ret("get", key, "-", None, "Ok", store_get(store, key, now),
                              <<now>>, EmptyMap)
                /\ UNCHANGED <<up, prev>>
           ELSE StorePanic("get", key, "-", None, m, save_to_file(m, wr))
    /\ fails' = fails + Failed(wr)
    /\ UNCHANGED <<now, saved, synced>>

\* store.rs delete(key): remove_expired (which saves), remove, save again.
\* wr1 and wr2 are the outcomes of the two writes; the second is attempted
\* only after the first succeeded.
StoreDelete(key, wr1, wr2) ==
    /\ up
    /\ LET m1 == remove_expired(store, now)
           m2 == remove(m1, key)
           f1 == save_to_file(m1, wr1)
       IN  IF wr1 # "ok"
           THEN /\ StorePanic("delete", key, "-", None, m1, f1)
                /\ fails' = fails + 1
           ELSE IF wr2 # "ok"
           THEN /\ StorePanic("delete", key, "-", None, m2,
                              IF wr2 = "open_failed" THEN f1 ELSE Corrupt)
                /\ fails' = fails + 1
           ELSE /\ store' = m2
                /\ file' = Json(data_to_string(m2))
                /\ ret' = Ret("delete", key, "-", None, "Ok",
                              IF key \in DOMAIN m1
                              THEN Some(json_to_string(m1[key].data)) ELSE None,
                              <<now>>, EmptyMap)
                /\ UNCHANGED <<up, prev, fails>>
    /\ UNCHANGED <<now, saved, synced>>

\* store.rs get_all()
StoreGetAll ==
    /\ up
    /\ ret' = Ret("get_all", "-", "-", None, "Ok", store_get_all(store), <<>>, EmptyMap)
    /\ UNCHANGED <<now, up, store, file, saved, prev, synced, fails>>

\* store.rs len()
StoreLen ==
    /\ up
    /\ ret' = Ret("len", "-", "-", None, "Ok", Some(store_len(store)), <<>>, EmptyMap)
    /\ UNCHANGED <<now, up, store, file, saved, prev, synced, fails>>

\* store.rs is_empty()
StoreIsEmpty ==
    /\ up
    /\ ret' = Ret("is_empty", "-", "-", None, "Ok", Some(store_is_empty(store)),
                  <<>>, EmptyMap)
    /\ UNCHANGED <<now, up, store, file, saved, prev, synced, fails>>

\* The outcomes of the two writes of delete.
DeleteOutcomes ==
    {<<"ok", "ok">>}
    \cup (IF fails < MaxFail
          THEN {<<w, "ok">> : w \in WriteOutcomes \ {"ok"}}
               \cup {<<"ok", w>> : w \in WriteOutcomes \ {"ok"}}
          ELSE {})

NextStore ==
    \/ Tick
    \/ StoreNew
    \/ Exit
    \/ \E k \in Keys, v \in Texts, t \in Ttls, wr \in Outcomes : StoreSet(k, v, t, wr)
    \/ \E k \in Keys, v \in Texts, t \in Ttls : StoreSetPanic(k, v, t)
    \/ \E k \in Keys, wr \in Outcomes : StoreGet(k, wr)
    \/ \E k \in Keys, ws \in DeleteOutcomes : StoreDelete(k, ws[1], ws[2])
    \/ StoreGetAll
    \/ StoreLen
    \/ StoreIsEmpty

\* The store.rs engine: every operation, snapshot writes may fail.
SpecStore == Init /\ [][NextStore]_vars

(***************************************************************************)
(* Vocabulary of the properties.                                           *)
(***************************************************************************)

\* The expiry rule of the specification: expires_at is present and <= t.
Due(v, t) == v.expires_at # None /\ v.expires_at[1] <= t

\* The keys a listing enumerates.
KeysOf(items) == {p[1] : p \in items}

Min(a, b) == IF a <= b THEN a ELSE b

(***************************************************************************)
(* C1. get never returns a payload, and list and get_all never enumerate   *)
(* a key, whose stored expires_at is present and <= the clock reading the  *)
(* operation takes - also while the entry is still in the map or in the    *)
(* snapshot file, and also right after a restart.                          *)
(***************************************************************************)
C1_ExpiredNeverSurfaces ==
    /\ up => \A k \in DOMAIN store :
            Due(store[k], now) =>
                /\ get(store, k, now) = None
                /\ k \notin KeysOf(list(store, AllAt(store, now)))
                /\ k \notin KeysOf(get_all(store, AllAt(store, now)))
    /\ (up /\ ret.op = "get" /\ ret.out # None) =>
            /\ ret.key \in DOMAIN store
            /\ ~Due(store[ret.key], ret.at[1])
    /\ (up /\ ret.op \in {"list", "get_all"}) =>
            \A k \in KeysOf(ret.out) : ~Due(store[k], ret.reads[k])

\* list has just left out an entry that is expired and still in the map and
\* in the snapshot file.
C1_Witness ==
    /\ up
    /\ ret.op = "list"
    /\ file.kind = "json"
    /\ \E k \in DOMAIN store :
          /\ Due(store[k], ret.reads[k])
          /\ k \notin KeysOf(ret.out)
          /\ k \in DOMAIN from_str(file.obj)
          /\ get(store, k, now) = None

(***************************************************************************)
(* C2. After set_with_ttl(k, v, Some(t)) executed at time T, and as long   *)
(* as only the clock advances, get(k) returns v at every time < T + t and  *)
(* nothing at every time >= T + t; after set_with_ttl(k, v, None) get(k)   *)
(* returns v at every later time.                                          *)
(***************************************************************************)
C2_ExpiryBoundary ==
    (up /\ ret.op = "set" /\ ret.status = "Ok") =>
        LET k == ret.key
            v == ret.val
            T == ret.at[1]
        IN  IF ret.ttl = None
            THEN get(store, k, now) = Some(v)
            ELSE /\ now < T + ret.ttl[1] => get(store, k, now) = Some(v)
                 /\ now >= T + ret.ttl[1] => get(store, k, now) = None

\* C2 restricted to the TTLs whose sum with the clock fits the integer type.
C2_ExpiryBoundaryNoOverflow ==
    (up /\ ret.op = "set" /\ ret.status = "Ok" /\ ~Overflows(ret.ttl, ret.at[1])) =>
        LET k == ret.key
            v == ret.val
            T == ret.at[1]
        IN  IF ret.ttl = None
            THEN get(store, k, now) = Some(v)
            ELSE /\ now < T + ret.ttl[1] => get(store, k, now) = Some(v)
                 /\ now >= T + ret.ttl[1] => get(store, k, now) = None

(***************************************************************************)
(* C3. Round trip across a restart: when new() has hydrated the store from *)
(* the snapshot, get on every key returns what the previous process would  *)
(* return at that time, and every entry of the previous process whose TTL  *)
(* has not elapsed is back with the same payload and the same expires_at   *)
(* (so get_ttl is computed from the same instant).                         *)
(***************************************************************************)
C3_RoundTrip ==
    [][(~up /\ up') =>
         \A k \in Keys :
            /\ get(store', k, now') = get(prev, k, now')
            /\ get_ttl(store', k, now', now') = get_ttl(prev, k, now', now')
            /\ (k \in DOMAIN prev /\ ~Due(prev[k], now')) =>
                  (k \in DOMAIN store' /\ store'[k] = prev[k])]_vars

\* A restarted store holds an entry with a TTL and an entry without one,
\* both readable.
C3_Witness ==
    /\ up
    /\ ret.op = "new"
    /\ \E j, k \in DOMAIN store :
          /\ store[j].expires_at = None
          /\ store[k].expires_at # None
          /\ get(store, j, now) # None
          /\ get(store, k, now) # None

(***************************************************************************)
(* C4. set_with_ttl(k, v2, ttl2) replaces the entry of k unconditionally:  *)
(* at the same clock reading get(k) returns v2 (ttl2 absent or > 0),       *)
(* get_ttl(k) returns ttl2 when ttl2 is present (and > 0) and nothing when *)
(* it is absent, and the stored entry is exactly v2 with the new expiry.   *)
(***************************************************************************)
C4_Overwrite ==
    (up /\ ret.op = "set" /\ ret.status = "Ok" /\ now = ret.at[1]) =>
        LET k == ret.key
            v2 == ret.val
            ttl2 == ret.ttl
        IN  /\ k \in DOMAIN store
            /\ store[k].data = v2
            /\ ttl2 = None =>
                  /\ store[k].expires_at = None
                  /\ get(store, k, now) = Some(v2)
                  /\ get_ttl(store, k, now, now) = None
            /\ (ttl2 # None /\ ttl2[1] > 0) =>
                  /\ get(store, k, now) = Some(v2)
                  /\ get_ttl(store, k, now, now) = ttl2

\* C4 restricted to the TTLs whose sum with the clock fits the integer type.
C4_OverwriteNoOverflow ==
    (up /\ ret.op = "set" /\ ret.status = "Ok" /\ now = ret.at[1]
        /\ ~Overflows(ret.ttl, ret.at[1])) =>
        LET k == ret.key
            v2 == ret.val
            ttl2 == ret.ttl
        IN  /\ k \in DOMAIN store
            /\ store[k].data = v2
            /\ ttl2 = None =>
                  /\ store[k].expires_at = None
                  /\ get(store, k, now) = Some(v2)
                  /\ get_ttl(store, k, now, now) = None
            /\ (ttl2 # None /\ ttl2[1] > 0) =>
                  /\ get(store, k, now) = Some(v2)
                  /\ get_ttl(store, k, now, now) = ttl2

(***************************************************************************)
(* C5. delete(k) on a key whose entry is expired but still in the map      *)
(* succeeds and returns nothing, as it does for an absent key.             *)
(***************************************************************************)
C5_DeleteExpired ==
    [][(up /\ up' /\ ret'.op = "delete" /\ now' = now
          /\ ret'.key \in DOMAIN store /\ Due(store[ret'.key], now)) =>
         (ret'.status = "Ok" /\ ret'.out = None)]_vars

\* A delete step of a running process.
DeleteStep == up /\ up' /\ ret'.op = "delete" /\ now' = now

(***************************************************************************)
(* C6. delete(k) on a live key returns the stored payload, and afterwards  *)
(* get(k) returns nothing and list() excludes k; delete(k) on an absent    *)
(* key returns Ok(nothing) without error; a second delete(k) in a row      *)
(* returns nothing and leaves the in-memory map unchanged.                 *)
(***************************************************************************)
C6_DeleteOriginal ==
    [][DeleteStep =>
         LET k == ret'.key
         IN  /\ (k \in DOMAIN store /\ ~Due(store[k], now)) =>
                   /\ ret'.status = "Ok"
                   /\ ret'.out = Some(store[k].data)
                   /\ get(store', k, now') = None
                   /\ k \notin KeysOf(list(store', AllAt(store', now')))
             /\ k \notin DOMAIN store =>
                   (ret'.status = "Ok" /\ ret'.out = None)
             /\ (ret.op = "delete" /\ ret.key = k) =>
                   (ret'.out = None /\ store' = store)]_vars

(***************************************************************************)
(* C6, amended. What delete(k) returns depends on the snapshot write: when *)
(* it succeeds, a live key gives Ok(its payload) and an absent key         *)
(* Ok(nothing); when it fails, delete returns the error and no payload.    *)
(* Either way k is gone from the map, get(k) returns nothing and list()    *)
(* excludes k, and a second delete(k) in a row returns no payload and      *)
(* leaves the map unchanged.                                               *)
(***************************************************************************)
C6_Delete ==
    [][DeleteStep =>
         LET k == ret'.key
         IN  /\ ret'.status = (IF synced' THEN "Ok" ELSE "Err")
             /\ (ret'.status = "Ok" /\ k \in DOMAIN store /\ ~Due(store[k], now)) =>
                   ret'.out = Some(store[k].data)
             /\ (ret'.status = "Ok" /\ k \notin DOMAIN store) => ret'.out = None
             /\ ret'.status = "Err" => ret'.out = None
             /\ k \notin DOMAIN store'
             /\ get(store', k, now') = None
             /\ k \notin KeysOf(list(store', AllAt(store', now')))
             /\ \A j \in Keys \ {k} :
                   get(store', j, now') = get(store, j, now)
             /\ (ret.op = "delete" /\ ret.key = k) =>
                   (ret'.out = None /\ store' = store)]_vars

\* delete has returned the payload of a key, which is gone from the map and
\* from the snapshot while the other key is still stored.
C6_Witness ==
    /\ up
    /\ ret.op = "delete"
    /\ ret.status = "Ok"
    /\ ret.out # None
    /\ ret.key \notin DOMAIN store
    /\ file.kind = "json"
    /\ ret.key \notin DOMAIN from_str(file.obj)
    /\ store # EmptyMap

(***************************************************************************)
(* C7. get_ttl(k) returns Some(expires_at - now) exactly when k has an     *)
(* entry with expires_at present and expires_at > now, now being the clock *)
(* when the remainder is computed; otherwise it returns nothing. The value *)
(* is never negative and does not grow as the clock advances.              *)
(***************************************************************************)
C7_GetTtl ==
    /\ (up /\ ret.op = "get_ttl") =>
          LET k == ret.key
              t == ret.at[2]
          IN  /\ ret.out =
                    IF /\ k \in DOMAIN store
                       /\ store[k].expires_at # None
                       /\ store[k].expires_at[1] > t
                    THEN Some(store[k].expires_at[1] - t)
                    ELSE None
              /\ ret.out # None => ret.out[1] >= 0
    /\ up => \A k \in DOMAIN store : \A t \in 0..MaxNow :
          LET a == get_ttl(store, k, t, t)
              b == get_ttl(store, k, t + 1, t + 1)
          IN  (a # None /\ b # None) => b[1] <= a[1]

\* C7 for the calls during which the clock does not advance.
C7_GetTtlOneReading ==
    (up /\ ret.op = "get_ttl" /\ ret.at[1] = ret.at[2]) =>
        LET k == ret.key
            t == ret.at[2]
        IN  ret.out =
              IF /\ k \in DOMAIN store
                 /\ store[k].expires_at # None
                 /\ store[k].expires_at[1] > t
              THEN Some(store[k].expires_at[1] - t)
              ELSE None

(***************************************************************************)
(* C8. set with a TTL never panics and stores                              *)
(* expires_at = min(now + ttl_seconds, u64::MAX): the sum saturates.       *)
(***************************************************************************)
C8_SaturatingExpiry ==
    (ret.op = "set" /\ ret.ttl # None) =>
        /\ ret.status # "Panic"
        /\ up => store[ret.key].expires_at =
                    Some(Min(ret.at[1] + ret.ttl[1], U64Max))

(***************************************************************************)
(* C9. Whenever the snapshot file is readable it holds the map handed to   *)
(* the last save that succeeded; right after a set_with_ttl or delete that *)
(* returned Ok it is exactly the serialization of the in-memory map, with  *)
(* nothing of the earlier contents left.                                   *)
(***************************************************************************)
C9_SnapshotConsistent ==
    /\ file.kind = "json" => from_str(file.obj) = saved
    /\ (up /\ ret.op \in {"set", "delete"} /\ ret.status = "Ok") =>
          /\ file.kind = "json"
          /\ file.obj = to_string(store)
          /\ from_str(file.obj) = store

\* After a failed write the readable snapshot still holds the last saved
\* map, which the in-memory map has left behind.
C9_Witness ==
    /\ up
    /\ file.kind = "json"
    /\ ~synced
    /\ saved # EmptyMap
    /\ store # saved
    /\ from_str(file.obj) = saved

StartupStep == ~up /\ ret'.op = "new" /\ (up' \/ ret' # ret)

(***************************************************************************)
(* C11. Startup never fails because of the snapshot: whenever new() runs   *)
(* and the storage directory can be created, it returns Ok; and when the   *)
(* snapshot file is missing, or exists but cannot be read or parsed, the   *)
(* store it returns is empty (get returns nothing for every key and list   *)
(* is empty).                                                              *)
(***************************************************************************)
C11_StartupNeverFails ==
    [][(StartupStep /\ ret'.val # "dir_failed") =>
         /\ up'
         /\ ret'.status = "Ok"
         /\ (file.kind # "json" \/ ret'.val = "read_failed") =>
               /\ store' = EmptyMap
               /\ \A k \in Keys : get(store', k, now') = None
               /\ list(store', AllAt(store', now')) = {}]_vars

(***************************************************************************)
(* C12. While the snapshot file does not exist, no operation other than    *)
(* set and delete creates it: new() on a missing file, and get, list,      *)
(* get_all and get_ttl after it, leave the file missing.                   *)
(***************************************************************************)
C12_NoFileBeforeMutation ==
    [][(file = Missing /\ ret'.op \notin {"set", "delete"}) => file' = Missing]_vars

\* The keys of map m whose entry is due at time t.
DueKeys(m, t) == {k \in DOMAIN m : Due(m[k], t)}

\* What cleanup_expired does to the loaded map in a step that brings the
\* store up: every entry due when new() began is removed, every entry not
\* due when new() returns is kept as it was, and nothing else appears.
CleanupOnLoad ==
    LET m0 == load(file)
    IN  /\ DOMAIN store' \subseteq DOMAIN m0
        /\ \A k \in DOMAIN store' : store'[k] = m0[k]
        /\ DueKeys(m0, now) \cap DOMAIN store' = {}
        /\ (DOMAIN m0 \ DueKeys(m0, now')) \subseteq DOMAIN store'

C18_TtlNeverZero ==
    (up /\ ret.op = "get_ttl" /\ ret.out # None) =>
        /\ ret.out[1] >= 1
        /\ ~Due(store[ret.key], ret.at[2])

(***************************************************************************)
(* C19. Startup on an unparsable snapshot is destructive: new() returns Ok *)
(* with an empty map, and when its startup write succeeds the file is the  *)
(* snapshot of the empty map, so that every later restart loads the empty  *)
(* map or what was written after it, never the previous content.           *)
(***************************************************************************)
C19_CorruptReplaced ==
    [][(~up /\ up' /\ file.kind = "corrupt") =>
         /\ ret'.status = "Ok"
         /\ store' = EmptyMap
         /\ fails' = fails =>
               /\ file' = Json({})
               /\ load(file') = EmptyMap
               /\ saved' = EmptyMap]_vars

\* A store just started on an unparsable file: the map is empty and the file
\* now is the snapshot of the empty map.
C19_Witness ==
    /\ up
    /\ ret.op = "new"
    /\ ret.val = "corrupt"
    /\ store = EmptyMap
    /\ file = Json({})

\* A step in which set_with_ttl or delete returns (Ok or Err) to a running
\* store.
MutationStep == up /\ up' /\ ret'.op \in {"set", "delete"} /\ now' = now

(***************************************************************************)
(* C20. set_with_ttl(k, _, _) and delete(k) change only the entry of k:    *)
(* every other key j keeps its entry (payload and expires_at, live or      *)
(* expired) or stays absent, so get(j) and get_ttl(j) give the same result *)
(* before and after at the same clock value; and get, list, get_all and    *)
(* get_ttl change neither the in-memory map nor the snapshot file.         *)
(***************************************************************************)
C20_Frame ==
    [][/\ MutationStep =>
            \A j \in Keys \ {ret'.key} :
                /\ j \in DOMAIN store' <=> j \in DOMAIN store
                /\ j \in DOMAIN store => store'[j] = store[j]
                /\ \A t \in now..(MaxNow + 1) :
                      /\ get(store', j, t) = get(store, j, t)
                      /\ get_ttl(store', j, t, t) = get_ttl(store, j, t, t)
                      /\ get_ttl(store', j, now, t) = get_ttl(store, j, now, t)
       /\ (up /\ up' /\ ret'.op \in {"get", "list", "get_all", "get_ttl"}) =>
            /\ store' = store
            /\ file' = file]_vars

\* A set on one key executed while the other key held an expired entry,
\* which is still in the map afterwards.
C20_Witness ==
    /\ up
    /\ ret.op = "set"
    /\ ret.status = "Ok"
    /\ \E j \in DOMAIN store : j # ret.key /\ Due(store[j], ret.at[1])

\* The map of the running process, or of the last process while none runs.
Mem == IF up THEN store ELSE prev

\* Key k reads as nothing in map m at time t: get and get_ttl return None
\* and list leaves it out.
Gone(m, k, t) ==
    /\ get(m, k, t) = None
    /\ get_ttl(m, k, t, t) = None
    /\ k \notin KeysOf(list(m, AllAt(m, t)))

\* A step in which set_with_ttl on key k returns to a running store.
SetOn(k) == MutationStep /\ ret'.op = "set" /\ ret'.key = k

\* Within one process an expired entry leaves the map, or changes, only by
\* delete(k) or set(k).
PurgedOnlyByOwnKey ==
    \A k \in DOMAIN store :
        (up /\ up' /\ Due(store[k], now)
            /\ (k \notin DOMAIN store' \/ store'[k] # store[k]))
        => (MutationStep /\ ret'.key = k)

(***************************************************************************)
(* C17. Lazy expiration is permanent under a non-decreasing clock: once    *)
(* the entry of k has expired, k reads as nothing (get, list, get_ttl)     *)
(* after every step that is not a set on k - operations on other keys,     *)
(* clock advances, exits and restarts - and the expired entry leaves the   *)
(* map of a running store only by delete(k) or set(k).                     *)
(***************************************************************************)
C17_ExpiredStaysGone ==
    [][/\ \A k \in Keys :
            (k \in DOMAIN Mem /\ Due(Mem[k], now) /\ ~SetOn(k))
            => Gone(Mem', k, now')
       /\ PurgedOnlyByOwnKey]_vars

(***************************************************************************)
(* C17, amended. Under a non-decreasing clock, a key that reads as nothing *)
(* (its entry has expired, or was purged) keeps reading as nothing - get   *)
(* and get_ttl return None, list leaves it out - after every step that is  *)
(* not a set on k, provided every restart finds the snapshot of the last   *)
(* successful write to be the map the previous process ended with; a       *)
(* restart after a failed write loads the older snapshot, whose entry of k *)
(* may be live. The expired entry leaves the map of a running store only   *)
(* by delete(k) or set(k).                                                 *)
(***************************************************************************)
C17_GoneUntilSetOrStaleRestart ==
    [][/\ \A k \in Keys :
            (Gone(Mem, k, now) /\ ~SetOn(k) /\ (StartupStep => synced))
            => Gone(Mem', k, now')
       /\ PurgedOnlyByOwnKey]_vars

\* An expired entry is still in the map, reading as nothing, after a delete
\* of the other key and an advance of the clock past its boundary second.
C17_Witness ==
    /\ up
    /\ ret.op = "delete"
    /\ \E k \in DOMAIN store :
          /\ k # ret.key
          /\ store[k].expires_at # None
          /\ store[k].expires_at[1] < now
          /\ Gone(store, k, now)

(***************************************************************************)
(* C14. The store.rs engine loads its snapshot at startup: a store         *)
(* constructed while a parsable snapshot exists at its path holds the      *)
(* entries of that snapshot, so get returns the keys a previous instance   *)
(* set; and a set of the new instance leaves every other unexpired entry   *)
(* of the snapshot in the file.                                            *)
(***************************************************************************)
C14_HydratedAtStartup ==
    [][/\ (~up /\ up' /\ file.kind = "json") =>
            /\ store' = load_from_file(file)
            /\ \A k \in DOMAIN load_from_file(file) :
                  store_get(store', k, now') = store_get(load_from_file(file), k, now')
       /\ (up /\ up' /\ ret'.op = "set" /\ now' = now /\ file.kind = "json") =>
            \A k \in DOMAIN remove_expired(load_from_file(file), now) \ {ret'.key} :
                k \in DOMAIN load_from_file(file')]_vars

(***************************************************************************)
(* C15. Exact payload round trip in store.rs: after set(k, v, None) has    *)
(* returned Ok, get(k) returns exactly the text v, at every later time.    *)
(***************************************************************************)
C15_StoreRoundTrip ==
    (up /\ ret.op = "set" /\ ret.status = "Ok" /\ ret.ttl = None) =>
        store_get(store, ret.key, now) = Some(ret.val)

(***************************************************************************)
(* C16. In store.rs the pruning done by get persists the pruned map and    *)
(* changes the result of no call: get on every key, get_all, len and       *)
(* is_empty give the same results after the get as they would have given   *)
(* in its place.                                                           *)
(***************************************************************************)
C16_PruningUnobservable ==
    [][(up /\ up' /\ ret'.op = "get" /\ now' = now) =>
         /\ file' = Json(data_to_string(store'))
         /\ \A k \in Keys : store_get(store', k, now) = store_get(store, k, now)
         /\ store_get_all(store') = store_get_all(store)
         /\ store_len(store') = store_len(store)
         /\ store_is_empty(store') = store_is_empty(store)]_vars

\* The kv_store.rs half of C15: set_with_ttl stores the text verbatim, so
\* after set(k, v, None) get(k) returns v.
C15_KvVerbatim ==
    (up /\ ret.op = "set" /\ ret.status = "Ok" /\ ret.ttl = None) =>
        get(store, ret.key, now) = Some(ret.val)

====
